---- MODULE Spec2Model ----
(***************************************************************************)
(* A model of graph_tools_playground.graph.ChallengeGraph (a networkx      *)
(* MultiDiGraph fed from two line-oriented text sources) and of the clique *)
(* lists that app.py derives from it.                                      *)
(*                                                                         *)
(* Representation.  A text line is modelled by the list of tokens that     *)
(* line.strip().split() yields for it, so a blank line is <<>>.  A string  *)
(* attribute value is modelled by its list of words: " ".join(ws) is the   *)
(* list ws and a single token t is the one-word string <<t>>.  A source is *)
(* a record [exists, lines]: whether the path resolves, and the lines of   *)
(* the file, header first.  A dict is a function on its set of keys; the   *)
(* empty dict is <<>>.                                                     *)
(***************************************************************************)
EXTENDS Integers, Sequences, FiniteSets, TLC

VARIABLES
    nodes,          \* self.nodes: id -> attribute dict
    adj,            \* self.adj of the MultiDiGraph: <<u, v>> -> relation of key 0, 1, ...
    applied,        \* history: the property source last ingested with success, and
                    \* whether relationships were ingested since
    last,           \* history: the last call, its argument, its outcome, the store before it
    friend_cliques, \* app.py: friend_cliques
    person_cliques  \* app.py: person_cliques

vars == <<nodes, adj, applied, last, friend_cliques, person_cliques>>

(***************************************************************************)
(* Bounds of the model.                                                    *)
(***************************************************************************)
MaxPropLines == 2
MaxRelLines == 2
MaxEdges == 2
MaxCliqueLines == 3

(***************************************************************************)
(* Dicts.                                                                  *)
(***************************************************************************)
EmptyDict == <<>>

\* d[k] = v
DictSet(d, k, v) == [x \in DOMAIN d \cup {k} |-> IF x = k THEN v ELSE d[x]]

\* d.update(e)
DictUpdate(d, e) == [x \in DOMAIN d \cup DOMAIN e |-> IF x \in DOMAIN e THEN e[x] ELSE d[x]]

\* d.setdefault(k, v)
DictSetDefault(d, k, v) == IF k \in DOMAIN d THEN d ELSE DictSet(d, k, v)

\* defaultdict(dict): d[k] with the empty dict for a missing key
DictGetOrEmpty(d, k) == IF k \in DOMAIN d THEN d[k] ELSE EmptyDict

SeqsUpTo(S, n) == UNION {[1..k -> S] : k \in 0..n}

(***************************************************************************)
(* Sources.                                                                *)
(***************************************************************************)
Missing == [exists |-> FALSE, lines |-> <<>>]
File(lines) == [exists |-> TRUE, lines |-> lines]

PropHeader == <<"ID", "Property", "Value">>
RelHeader == <<"Relationship", "ID1", "Type1", "ID2", "Type2">>

(***************************************************************************)
(* Parsing.                                                                *)
(***************************************************************************)
parse_property_line(line) ==
    IF Len(line) < 2
    THEN [err |-> "IndexError"]
    ELSE [err |-> "none", id |-> line[1], property |-> line[2],
          value |-> SubSeq(line, 3, Len(line))]

\* a bug parse_relationship_line could have: len(relationship) < 5 as the test
parse_relationship_line_at_least_five(line) ==
    IF Len(line) < 5
    THEN [err |-> "InvalidRelationshipLine"]
    ELSE [err |-> "none", rel |-> line[1], id1 |-> line[2], type1 |-> line[3],
          id2 |-> line[4], type2 |-> line[5]]

parse_relationship_line(line) ==
    IF Len(line) # 5
    THEN [err |-> "InvalidRelationshipLine"]
    ELSE [err |-> "none", rel |-> line[1], id1 |-> line[2], type1 |-> line[3],
          id2 |-> line[4], type2 |-> line[5]]

(***************************************************************************)
(* Property ingestion.                                                     *)
(***************************************************************************)
RECURSIVE PropLoop(_, _, _)
\* the loop "for line in fp" of add_properties_from_file, from line i on
PropLoop(lines, i, parsed_entities) ==
    IF i > Len(lines) THEN [err |-> "none", parsed_entities |-> parsed_entities]
    ELSE IF lines[i] = <<>> THEN PropLoop(lines, i + 1, parsed_entities)
    ELSE LET p == parse_property_line(lines[i]) IN
         IF p.err # "none"
         THEN [err |-> p.err, parsed_entities |-> parsed_entities]
         ELSE PropLoop(lines, i + 1,
                       DictSet(parsed_entities, p.id,
                               DictSet(DictGetOrEmpty(parsed_entities, p.id),
                                       p.property, p.value)))

\* a bug add_nodes_from could have: the parsed dict replaces the attribute dict
add_nodes_from_replacing(ns, parsed_entities) ==
    [id \in DOMAIN ns \cup DOMAIN parsed_entities |->
        IF id \in DOMAIN parsed_entities THEN parsed_entities[id] ELSE ns[id]]

\* networkx add_nodes_from over (id, dict) pairs: create the node when it is new,
\* then update its attribute dict key by key
add_nodes_from(ns, parsed_entities) ==
    [id \in DOMAIN ns \cup DOMAIN parsed_entities |->
        IF id \in DOMAIN parsed_entities
        THEN DictUpdate(DictGetOrEmpty(ns, id), parsed_entities[id])
        ELSE ns[id]]

add_properties_from_file(st, properties) ==
    IF ~properties.exists THEN [st EXCEPT !.err = "FileNotFoundError"]
    ELSE IF properties.lines = <<>> THEN [st EXCEPT !.err = "StopIteration"]
    ELSE LET r == PropLoop(properties.lines, 2, EmptyDict) IN
         IF r.err # "none" THEN [st EXCEPT !.err = r.err]
         ELSE [nodes |-> add_nodes_from(st.nodes, r.parsed_entities),
               adj |-> st.adj, err |-> "none"]

(***************************************************************************)
(* Relationship ingestion.                                                 *)
(***************************************************************************)
\* a bug add_edge could have: the relation is the edge key, so that a pair keeps
\* one edge per relation
add_edge_keyed_by_relation(a, u, v, rel) ==
    IF <<u, v>> \in DOMAIN a
    THEN IF \E k \in 1..Len(a[<<u, v>>]) : a[<<u, v>>][k] = rel
         THEN a
         ELSE [a EXCEPT ![<<u, v>>] = Append(@, rel)]
    ELSE [p \in DOMAIN a \cup {<<u, v>>} |-> IF p = <<u, v>> THEN <<rel>> ELSE a[p]]

\* networkx MultiDiGraph.add_edge(u, v, relation=rel): the new edge gets the next
\* free key of the pair, which is the number of edges the pair has
add_edge(a, u, v, rel) ==
    IF <<u, v>> \in DOMAIN a
    THEN [a EXCEPT ![<<u, v>>] = Append(@, rel)]
    ELSE [p \in DOMAIN a \cup {<<u, v>>} |-> IF p = <<u, v>> THEN <<rel>> ELSE a[p]]

\* a bug the Type update could have: self.nodes[id]["Type"] = type
SetType_overwriting(ns, id, type) == [ns EXCEPT ![id] = DictSet(@, "Type", <<type>>)]

\* self.nodes[id].setdefault("Type", type)
SetType(ns, id, type) == [ns EXCEPT ![id] = DictSetDefault(@, "Type", <<type>>)]

\* the body of the loop of add_relationships_from_file for one non-blank line
RelLine(st, line) ==
    LET r == parse_relationship_line(line) IN
    IF r.err # "none" THEN [st EXCEPT !.err = r.err]
    ELSE IF r.id1 \notin DOMAIN st.nodes THEN [st EXCEPT !.err = "KeyError"]
    ELSE LET n1 == SetType(st.nodes, r.id1, r.type1) IN
         IF r.id2 \notin DOMAIN n1
         THEN [nodes |-> n1, adj |-> st.adj, err |-> "KeyError"]
         ELSE [nodes |-> SetType(n1, r.id2, r.type2),
               adj |-> add_edge(st.adj, r.id1, r.id2, r.rel),
               err |-> "none"]

RECURSIVE RelLoop(_, _, _)
\* the loop "for line in fp" of add_relationships_from_file, from line i on
RelLoop(st, lines, i) ==
    IF i > Len(lines) THEN st
    ELSE IF lines[i] = <<>> THEN RelLoop(st, lines, i + 1)
    ELSE LET s == RelLine(st, lines[i]) IN
         IF s.err # "none" THEN s ELSE RelLoop(s, lines, i + 1)

\* a bug add_relationships_from_file could have: a missing file is skipped
add_relationships_from_file_skipping(st, relationships) ==
    IF ~relationships.exists THEN st
    ELSE IF relationships.lines = <<>> THEN [st EXCEPT !.err = "StopIteration"]
    ELSE RelLoop(st, relationships.lines, 2)

add_relationships_from_file(st, relationships) ==
    IF ~relationships.exists THEN [st EXCEPT !.err = "FileNotFoundError"]
    ELSE IF relationships.lines = <<>> THEN [st EXCEPT !.err = "StopIteration"]
    ELSE RelLoop(st, relationships.lines, 2)

(***************************************************************************)
(* Construction from two files.                                            *)
(***************************************************************************)
from_file(properties, relationships) ==
    LET graph == add_properties_from_file([nodes |-> <<>>, adj |-> <<>>, err |-> "none"],
                                          properties) IN
    IF graph.err # "none" THEN graph
    ELSE add_relationships_from_file(graph, relationships)

(***************************************************************************)
(* Clique queries.                                                         *)
(***************************************************************************)
Range(f) == {f[i] : i \in DOMAIN f}

\* self.nodes[n].get("Type"): <<>> for None, <<v>> for the value v
GetType(ns, n) == IF "Type" \in DOMAIN ns[n] THEN <<ns[n]["Type"]>> ELSE <<>>

\* a bug the friend filter could have: every edge is taken, whatever its relation
FriendEdges_unfiltered(st) == {{q[1], q[2]} : q \in DOMAIN st.adj}

\* the set edges of find_friend_cliques: frozenset([n1, n2]) of every edge
\* (n1, n2, d) of self.edges(data=True) with d["relation"] == "FRIENDS_WITH"
FriendEdges(st) ==
    {{q[1], q[2]} :
        q \in {p \in DOMAIN st.adj :
                 \E k \in 1..Len(st.adj[p]) : st.adj[p][k] = "FRIENDS_WITH"}}

\* the set edges of find_person_cliques: frozenset([n1, n2]) of every edge (n1, n2)
\* of self.edges() with get("Type") of n1 == get("Type") of n2 == "Person"
PersonEdges(st) ==
    {{q[1], q[2]} :
        q \in {p \in DOMAIN st.adj :
                 /\ Len(st.adj[p]) > 0
                 /\ GetType(st.nodes, p[1]) = GetType(st.nodes, p[2])
                 /\ GetType(st.nodes, p[2]) = << <<"Person">> >>}}

RECURSIVE NodeOrdersFrom(_, _)
\* the node orders G can get from order on, when the edges left are added in any
\* order and each is unpacked from either end (edges is a set of frozensets):
\* an edge appends those of its ends that are not yet nodes, first end first
NodeOrdersFrom(order, edges) ==
    IF edges = {} THEN {order}
    ELSE UNION {
           UNION { NodeOrdersFrom(
                       order \o SelectSeq(uv, LAMBDA n : n \notin Range(order)),
                       edges \ {e}) :
                   uv \in {w \in e \X e : {w[1], w[2]} = e /\ w[1] # w[2]} } :
           e \in edges }

\* the orders in which G = nx.Graph(); G.add_edges_from(edges) can hold its nodes
NodeOrders(edges) == NodeOrdersFrom(<<>>, edges)

RECURSIVE CliqueLoop(_, _, _)
\* the loop "while queue" of networkx enumerate_all_cliques: pop (base, cnbrs),
\* yield base, and queue base + [u] for every u of cnbrs with the later members of
\* cnbrs that are neighbours of u
CliqueLoop(nbrs, queue, yielded) ==
    IF queue = <<>> THEN yielded
    ELSE LET base == Head(queue).base
             cnbrs == Head(queue).cnbrs
             more == [i \in 1..Len(cnbrs) |->
                        [base |-> Append(base, cnbrs[i]),
                         cnbrs |-> SelectSeq(SubSeq(cnbrs, i + 1, Len(cnbrs)),
                                             LAMBDA v : v \in nbrs[cnbrs[i]])]]
         IN CliqueLoop(nbrs, Tail(queue) \o more, Append(yielded, base))

\* networkx enumerate_all_cliques(G) for the graph of edges whose nodes iterate in
\* order: nbrs[u] are the neighbours of u that come after u
enumerate_all_cliques(edges, order) ==
    LET index(u) == CHOOSE i \in 1..Len(order) : order[i] = u
        nbrs == [u \in Range(order) |->
                    {v \in Range(order) : {u, v} \in edges /\ index(v) > index(u)}]
        queue == [i \in 1..Len(order) |->
                    [base |-> <<order[i]>>,
                     cnbrs |-> SelectSeq(order, LAMBDA v : v \in nbrs[order[i]])]]
    IN CliqueLoop(nbrs, queue, <<>>)

\* G = nx.Graph(); G.add_edges_from(edges); enumerate_all_cliques(G).
\* add_edges_from raises NetworkXError for an edge that is not a 2- or 3-tuple:
\* the frozenset of a self-loop has one member
CliquesOf(edges, order) ==
    IF \E e \in edges : Cardinality(e) # 2
    THEN [err |-> "NetworkXError", cliques |-> <<>>]
    ELSE [err |-> "none", cliques |-> enumerate_all_cliques(edges, order)]

\* a bug the query could have: nx.find_cliques, which yields the maximal cliques
find_friend_cliques_maximal(st, order) ==
    LET r == CliquesOf(FriendEdges(st), order) IN
    [r EXCEPT !.cliques =
        SelectSeq(r.cliques,
                  LAMBDA c : \A i \in 1..Len(r.cliques) :
                                 ~(Range(c) \subseteq Range(r.cliques[i])
                                   /\ Range(c) # Range(r.cliques[i])))]

\* order is the order in which G comes to hold its nodes
find_friend_cliques(st, order) == CliquesOf(FriendEdges(st), order)

find_person_cliques(st, order) == CliquesOf(PersonEdges(st), order)

\* the node orders a query on edges can see: none when add_edges_from raises
QueryOrders(edges) ==
    IF \E e \in edges : Cardinality(e) # 2 THEN {<<>>} ELSE NodeOrders(edges)

(***************************************************************************)
(* The store, and what the model remembers of the last call.               *)
(***************************************************************************)
Store(ns, a) == [nodes |-> ns, adj |-> a]
EmptyStore == Store(<<>>, <<>>)

\* the graph object a call works on, with the exception the call ends in
Running(ns, a) == [nodes |-> ns, adj |-> a, err |-> "none"]

RECURSIVE SumLen(_, _)
SumLen(f, S) == IF S = {} THEN 0
                ELSE LET x == CHOOSE y \in S : TRUE IN Len(f[x]) + SumLen(f, S \ {x})

\* len(self.edges)
NumEdges(a) == SumLen(a, DOMAIN a)

\* the record of a call: its argument, the exception it ended in, the store before
\* it, whether it repeats an earlier call with the same source, the store before
\* that earlier call, whether relationships were ingested between the two, and
\* for a clique query the edge set it built, the node order of G and its result
Call(op, src, err, pre, again, first) ==
    [op |-> op, src |-> src, err |-> err, pre |-> pre, again |-> again, first |-> first,
     between |-> FALSE, edges |-> {}, order |-> <<>>, cliques |-> <<>>]

\* no call is in progress: the caller is between two calls
NoCall == Call("none", Missing, "none", EmptyStore, FALSE, EmptyStore)

NotApplied == [src |-> Missing, between |-> FALSE]

(***************************************************************************)
(* Inputs of the ingestion specification.                                  *)
(***************************************************************************)
IDs == {"A", "B"}
Relations == {"FRIENDS_WITH", "STUDIES_WITH"}

PropLines ==
    {<<>>, <<"A">>, <<"A", "Name", "Al", "Smith">>, <<"B", "Type", "Field">>}
    \cup {<<id, "Name", "Ally">> : id \in IDs}

\* <<ID1, Type1, ID2, Type2>> of the valid relationship lines
RelEnds ==
    {<<"A", "Person", "B", "Field">>, <<"B", "Person", "A", "Person">>,
     <<"A", "Field", "A", "Person">>}

RelLines ==
    {<<>>, <<"FRIENDS_WITH", "A", "Person", "B">>,
     <<"FRIENDS_WITH", "A", "Person", "B", "Person", "x">>}
    \cup {<<rel>> \o e : rel \in Relations, e \in RelEnds}

PropSources ==
    {Missing, File(<<>>)}
    \cup {File(<<PropHeader>> \o d) : d \in SeqsUpTo(PropLines, MaxPropLines)}

RelSources ==
    {Missing, File(<<>>)}
    \cup {File(<<RelHeader>> \o d) : d \in SeqsUpTo(RelLines, MaxRelLines)}

(***************************************************************************)
(* The ingestion calls.                                                    *)
(***************************************************************************)
\* g.add_properties_from_file(properties), properties drawn from sources; with
\* track, the model remembers the source of a successful call
CallAddProperties(sources, track) ==
    /\ last = NoCall
    /\ \E properties \in sources :
        LET r == add_properties_from_file(Running(nodes, adj), properties) IN
        /\ nodes' = r.nodes
        /\ adj' = r.adj
        /\ applied' = IF track /\ r.err = "none"
                      THEN [src |-> properties, between |-> FALSE]
                      ELSE applied
        /\ last' = [Call("add_properties_from_file", properties, r.err, Store(nodes, adj),
                         properties.exists /\ properties = applied.src, Store(nodes, adj))
                    EXCEPT !.between = applied.between]
    /\ UNCHANGED <<friend_cliques, person_cliques>>

\* g.add_relationships_from_file(relationships), by a caller that is between two
\* calls, or that repeats its last successful call with the same source
CallAddRelationships(sources) ==
    /\ \/ last = NoCall
       \/ last.op = "add_relationships_from_file" /\ last.err = "none" /\ ~last.again
    /\ \E relationships \in (IF last = NoCall THEN sources ELSE {last.src}) :
        LET r == add_relationships_from_file(Running(nodes, adj), relationships) IN
        /\ NumEdges(r.adj) <= MaxEdges
        /\ nodes' = r.nodes
        /\ adj' = r.adj
        /\ applied' = [applied EXCEPT !.between = applied.src.exists]
        /\ last' = Call("add_relationships_from_file", relationships, r.err,
                        Store(nodes, adj), last # NoCall,
                        IF last = NoCall THEN Store(nodes, adj) ELSE last.pre)
    /\ UNCHANGED <<friend_cliques, person_cliques>>

\* the call returns, or its exception reaches the caller
Return ==
    /\ last # NoCall
    /\ last' = NoCall
    /\ UNCHANGED <<nodes, adj, applied, friend_cliques, person_cliques>>

(***************************************************************************)
(* Spec: a fresh graph and any sequence of ingestion calls.                *)
(***************************************************************************)
Init ==
    /\ nodes = <<>>
    /\ adj = <<>>
    /\ applied = NotApplied
    /\ last = NoCall
    /\ friend_cliques = <<>>
    /\ person_cliques = <<>>

AddPropertiesFromFile == CallAddProperties(PropSources, FALSE)

AddRelationshipsFromFile == CallAddRelationships(RelSources)

Next == AddPropertiesFromFile \/ AddRelationshipsFromFile \/ Return

Spec == Init /\ [][Next]_vars

(***************************************************************************)
(* SpecProps: the same, with fewer sources, remembering the property       *)
(* source last ingested and whether relationships were ingested since.     *)
(***************************************************************************)
TrackedPropLines ==
    {<<"A", "Name", "Al", "Smith">>, <<"B", "Type", "Field">>}
    \cup {<<id, "Name", "Ally">> : id \in IDs}

TrackedPropSources ==
    {File(<<PropHeader>> \o d) : d \in SeqsUpTo(TrackedPropLines, MaxPropLines)}

BetweenRelSources ==
    {Missing}
    \cup {File(<<RelHeader, <<rel>> \o e>>) : rel \in {"FRIENDS_WITH"}, e \in RelEnds}

AddTrackedProperties == CallAddProperties(TrackedPropSources, TRUE)

AddRelationshipsBetween == CallAddRelationships(BetweenRelSources)

NextProps == AddTrackedProperties \/ AddRelationshipsBetween \/ Return

SpecProps == Init /\ [][NextProps]_vars

(***************************************************************************)
(* SpecClique: a graph built by from_file from a property file that names  *)
(* every id and a relationship file, then clique queries on it.            *)
(***************************************************************************)
CliqueIDs == {"A", "B", "C"}

NodeLines(id) == {<<id, "Name", "Ally">>, <<id, "Type", "Field">>}

CliquePropSources ==
    {File(<<PropHeader, <<"A", "Name", "Ally">>, b, c>>) :
        b \in NodeLines("B"), c \in NodeLines("C")}

CliqueRelLines ==
    {<<rel, id1, "Person", id2, "Person">> :
        rel \in Relations, id1 \in CliqueIDs, id2 \in CliqueIDs}

CliqueRelSources ==
    {File(<<RelHeader>> \o d) : d \in SeqsUpTo(CliqueRelLines, MaxCliqueLines)}

InitClique ==
    /\ \E properties \in CliquePropSources, relationships \in CliqueRelSources :
          LET G == from_file(properties, relationships) IN
          /\ G.err = "none"
          /\ nodes = G.nodes
          /\ adj = G.adj
    /\ applied = NotApplied
    /\ last = NoCall
    /\ friend_cliques = <<>>
    /\ person_cliques = <<>>

\* list(g.find_friend_cliques())
FindFriendCliques ==
    /\ last = NoCall
    /\ \E order \in QueryOrders(FriendEdges(Store(nodes, adj))) :
          LET r == find_friend_cliques(Store(nodes, adj), order) IN
          last' = [Call("find_friend_cliques", Missing, r.err, Store(nodes, adj),
                        FALSE, Store(nodes, adj))
                   EXCEPT !.edges = FriendEdges(Store(nodes, adj)),
                          !.order = order, !.cliques = r.cliques]
    /\ UNCHANGED <<nodes, adj, applied, friend_cliques, person_cliques>>

\* list(g.find_person_cliques())
FindPersonCliques ==
    /\ last = NoCall
    /\ \E order \in QueryOrders(PersonEdges(Store(nodes, adj))) :
          LET r == find_person_cliques(Store(nodes, adj), order) IN
          last' = [Call("find_person_cliques", Missing, r.err, Store(nodes, adj),
                        FALSE, Store(nodes, adj))
                   EXCEPT !.edges = PersonEdges(Store(nodes, adj)),
                          !.order = order, !.cliques = r.cliques]
    /\ UNCHANGED <<nodes, adj, applied, friend_cliques, person_cliques>>

NextClique == FindFriendCliques \/ FindPersonCliques \/ Return

SpecClique == InitClique /\ [][NextClique]_vars

(***************************************************************************)
(* SpecApp: app.py.  G is built by from_file from the data files; then the *)
(* module computes friend_cliques and person_cliques.  The data files name *)
(* four nodes, D perhaps a Field, and each pair of them at most once.      *)
(***************************************************************************)
AppFriends == <<<<"A", "B">>, <<"A", "C">>, <<"B", "C">>>>

AppPairs == <<<<"A", "D">>, <<"B", "D">>, <<"C", "D">>>>

AppPropSources ==
    {File(<<PropHeader, <<"A", "Name", "Ally">>, <<"B", "Name", "Frank">>,
            <<"C", "Name", "Oscar">>, d>>) :
        d \in {<<"D", "Name", "Al", "Smith">>, <<"D", "Type", "Field">>}}

\* A, B and C are friends; one line per pair with D with the relation chosen for
\* it, no line for "none"
AppRelSources ==
    {File(<<RelHeader>> \o
          [i \in 1..Len(AppFriends) |->
              <<"FRIENDS_WITH", AppFriends[i][1], "Person", AppFriends[i][2], "Person">>] \o
          SelectSeq([i \in 1..Len(AppPairs) |->
                        <<rels[i], AppPairs[i][1], "Person", AppPairs[i][2], "Person">>],
                    LAMBDA line : line[1] # "none")) :
        rels \in [1..Len(AppPairs) -> Relations \cup {"none"}]}

InitApp ==
    /\ \E properties \in AppPropSources, relationships \in AppRelSources :
          LET G == from_file(properties, relationships) IN
          /\ G.err = "none"
          /\ nodes = G.nodes
          /\ adj = G.adj
    /\ applied = NotApplied
    /\ last = Call("from_file", Missing, "none", EmptyStore, FALSE, EmptyStore)
    /\ friend_cliques = <<>>
    /\ person_cliques = <<>>

\* lambda x: len(x) == 3
KeepClique(x) == Len(x) = 3

\* friend_cliques = list(filter(lambda x: len(x) == 3, G.find_friend_cliques()))
AppFriendCliques ==
    /\ last.op = "from_file"
    /\ \E order \in QueryOrders(FriendEdges(Store(nodes, adj))) :
          LET r == find_friend_cliques(Store(nodes, adj), order) IN
          /\ friend_cliques' = SelectSeq(r.cliques, KeepClique)
          /\ last' = [Call("friend_cliques", Missing, r.err, Store(nodes, adj),
                           FALSE, Store(nodes, adj))
                      EXCEPT !.edges = FriendEdges(Store(nodes, adj)),
                             !.order = order, !.cliques = r.cliques]
    /\ UNCHANGED <<nodes, adj, applied, person_cliques>>

\* person_cliques = list(filter(lambda x: len(x) == 3, G.find_person_cliques()))
AppPersonCliques ==
    /\ last.op = "friend_cliques"
    /\ last.err = "none"
    /\ \E order \in QueryOrders(PersonEdges(Store(nodes, adj))) :
          LET r == find_person_cliques(Store(nodes, adj), order) IN
          /\ person_cliques' = SelectSeq(r.cliques, KeepClique)
          /\ last' = [Call("person_cliques", Missing, r.err, Store(nodes, adj),
                           FALSE, Store(nodes, adj))
                      EXCEPT !.edges = PersonEdges(Store(nodes, adj)),
                             !.order = order, !.cliques = r.cliques]
    /\ UNCHANGED <<nodes, adj, applied, friend_cliques>>

NextApp == AppFriendCliques \/ AppPersonCliques

SpecApp == InitApp /\ [][NextApp]_vars

(***************************************************************************)
(* What a relationship source says, read off its lines.                    *)
(***************************************************************************)
AdjOf(a, p) == IF p \in DOMAIN a THEN a[p] ELSE <<>>

\* the labels of the five-token lines 2..k that go from p[1] to p[2], in line order
LabelsFor(lines, k, p) ==
    LET mine == SelectSeq(SubSeq(lines, 2, k),
                          LAMBDA l : Len(l) = 5 /\ <<l[2], l[4]>> = p) IN
    [i \in 1..Len(mine) |-> mine[i][1]]

\* the five-token lines among lines 2..k that mention id
Mentions(lines, k, id) ==
    {j \in 2..k : Len(lines[j]) = 5 /\ id \in {lines[j][2], lines[j][4]}}

\* the type declared for id where lines 2..k mention it first
FirstDecl(lines, k, id) ==
    LET j == CHOOSE i \in Mentions(lines, k, id) :
                 \A h \in Mentions(lines, k, id) : i <= h IN
    IF lines[j][2] = id THEN lines[j][3] ELSE lines[j][5]

HasType(ns, id) == id \in DOMAIN ns /\ "Type" \in DOMAIN ns[id]

\* line k is the first line the loop fails on, and it fails on its token count:
\* the lines before it are blank or five-token lines between nodes of the store
BadAt(k) ==
    /\ k \in 2..Len(last.src.lines)
    /\ last.src.lines[k] # <<>>
    /\ Len(last.src.lines[k]) # 5
    /\ \A j \in 2..(k - 1) :
          \/ last.src.lines[j] = <<>>
          \/ /\ Len(last.src.lines[j]) = 5
             /\ {last.src.lines[j][2], last.src.lines[j][4]} \subseteq DOMAIN last.pre.nodes

\* the attribute dicts after the lines 2..k were processed: a node without Type
\* that the lines mention gets the type of its first mention
NodesAfter(ns, lines, k) ==
    [id \in DOMAIN ns |->
        IF "Type" \in DOMAIN ns[id] \/ Mentions(lines, k, id) = {}
        THEN ns[id]
        ELSE DictSet(ns[id], "Type", <<FirstDecl(lines, k, id)>>)]

(***************************************************************************)
(* C2.  Property ingestion is idempotent: a call of                        *)
(* add_properties_from_file with the source of the last successful call,   *)
(* whatever relationship ingestions came in between, succeeds and leaves   *)
(* every attribute dict (a Type set by a relationship line included) and   *)
(* every edge as they were before the call.                                *)
(***************************************************************************)
C2_IdempotentProperties ==
    (last.op = "add_properties_from_file" /\ last.again) =>
        /\ last.err = "none"
        /\ nodes = last.pre.nodes
        /\ adj = last.pre.adj

\* the source is ingested again after relationship ingestions, on a store where a
\* node the source names got its Type from a relationship line
C2_Witness ==
    /\ last.op = "add_properties_from_file"
    /\ last.again
    /\ last.between
    /\ NumEdges(adj) > 0
    /\ \E j \in 2..Len(last.src.lines) :
          /\ last.src.lines[j] # <<>>
          /\ HasType(nodes, last.src.lines[j][1])
          /\ nodes[last.src.lines[j][1]]["Type"] = <<"Person">>

(***************************************************************************)
(* C3.  For every valid relationship line, add_relationships_from_file     *)
(* makes sure both ends exist as nodes, creating the absent ones with      *)
(* their declared Type, and appends the edge: a call on a source whose     *)
(* lines are all blank or valid succeeds, every id it names is a node with *)
(* a Type afterwards, and every line's edge is appended.                   *)
(***************************************************************************)
C3_NodesCreatedOnDemand ==
    (/\ last.op = "add_relationships_from_file"
     /\ last.src.exists
     /\ last.src.lines # <<>>
     /\ \A j \in 2..Len(last.src.lines) :
           last.src.lines[j] = <<>> \/ Len(last.src.lines[j]) = 5) =>
        /\ last.err = "none"
        /\ \A j \in 2..Len(last.src.lines) :
              last.src.lines[j] # <<>> =>
                  /\ HasType(nodes, last.src.lines[j][2])
                  /\ HasType(nodes, last.src.lines[j][4])
        /\ \A p \in DOMAIN adj \cup DOMAIN last.pre.adj :
              AdjOf(adj, p) = AdjOf(last.pre.adj, p)
                                \o LabelsFor(last.src.lines, Len(last.src.lines), p)

(***************************************************************************)
(* C4.  First write wins for Type: a relationship ingestion (a first call  *)
(* or a later one) leaves the Type of every node that had one as it was,   *)
(* whatever its lines declare, and a node that had none and has one        *)
(* afterwards has the type of its first mention in the source.             *)
(***************************************************************************)
C4_FirstWriteWinsType ==
    (last.op = "add_relationships_from_file") =>
        /\ DOMAIN nodes = DOMAIN last.pre.nodes
        /\ \A id \in DOMAIN nodes :
              /\ HasType(last.pre.nodes, id) =>
                    /\ HasType(nodes, id)
                    /\ nodes[id]["Type"] = last.pre.nodes[id]["Type"]
              /\ (~HasType(last.pre.nodes, id) /\ HasType(nodes, id)) =>
                    /\ Mentions(last.src.lines, Len(last.src.lines), id) # {}
                    /\ nodes[id]["Type"]
                         = <<FirstDecl(last.src.lines, Len(last.src.lines), id)>>

\* a processed line declares, for a node that already had a Type, another type
C4_Witness ==
    /\ last.op = "add_relationships_from_file"
    /\ last.err = "none"
    /\ \E j \in 2..Len(last.src.lines) :
          /\ last.src.lines[j] # <<>>
          /\ \/ /\ HasType(last.pre.nodes, last.src.lines[j][2])
                /\ last.pre.nodes[last.src.lines[j][2]]["Type"] # <<last.src.lines[j][3]>>
             \/ /\ HasType(last.pre.nodes, last.src.lines[j][4])
                /\ last.pre.nodes[last.src.lines[j][4]]["Type"] # <<last.src.lines[j][5]>>

(***************************************************************************)
(* C6.  Missing source: add_properties_from_file and                       *)
(* add_relationships_from_file called with a path that does not resolve    *)
(* raise FileNotFoundError and leave nodes, attribute dicts and edges as   *)
(* they were before the call.                                              *)
(***************************************************************************)
C6_MissingSource ==
    (last.op \in {"add_properties_from_file", "add_relationships_from_file"}
     /\ ~last.src.exists) =>
        /\ last.err = "FileNotFoundError"
        /\ nodes = last.pre.nodes
        /\ adj = last.pre.adj

\* a missing relationship source is given to a store that has nodes and edges
C6_Witness ==
    /\ last.op = "add_relationships_from_file"
    /\ ~last.src.exists
    /\ last.err = "FileNotFoundError"
    /\ NumEdges(adj) > 0

(***************************************************************************)
(* C7.  Malformed relationship line: when the loop reaches a non-blank     *)
(* line that does not have five tokens, the call raises                    *)
(* InvalidRelationshipLine; the store then holds the edges of the lines    *)
(* before it, appended to those it had, and no other edge, and the         *)
(* attribute dicts are those the lines before it leave: the bad line and   *)
(* the lines after it add no edge and set no Type.                         *)
(***************************************************************************)
C7_MalformedLine ==
    (last.op = "add_relationships_from_file") =>
        \A k \in 2..Len(last.src.lines) :
            BadAt(k) =>
                /\ last.err = "InvalidRelationshipLine"
                /\ \A p \in DOMAIN adj \cup DOMAIN last.pre.adj :
                      AdjOf(adj, p) = AdjOf(last.pre.adj, p)
                                        \o LabelsFor(last.src.lines, k - 1, p)
                /\ nodes = NodesAfter(last.pre.nodes, last.src.lines, k - 1)

\* a valid line was processed before the malformed one and its edge is in the store
C7_Witness ==
    /\ last.op = "add_relationships_from_file"
    /\ BadAt(3)
    /\ Len(last.src.lines[2]) = 5
    /\ last.err = "InvalidRelationshipLine"
    /\ NumEdges(adj) = NumEdges(last.pre.adj) + 1

(***************************************************************************)
(* C8.  Relationships are not deduplicated: a successful relationship      *)
(* ingestion appends, for every ordered pair, one edge per line of the     *)
(* pair with the line's label, also when such an edge exists; ingesting    *)
(* the same source a second time appends the same edges again, so a pair   *)
(* that had no edge before the first ingestion has twice as many after the *)
(* second as after the first.                                              *)
(***************************************************************************)
C8_NoDedup ==
    (last.op = "add_relationships_from_file" /\ last.err = "none") =>
        \A p \in DOMAIN adj \cup DOMAIN last.pre.adj :
            LET mine == LabelsFor(last.src.lines, Len(last.src.lines), p) IN
            /\ AdjOf(adj, p) = AdjOf(last.pre.adj, p) \o mine
            /\ last.again =>
                  /\ AdjOf(last.pre.adj, p) = AdjOf(last.first.adj, p) \o mine
                  /\ AdjOf(last.first.adj, p) = <<>> =>
                        Len(AdjOf(adj, p)) = 2 * Len(AdjOf(last.pre.adj, p))

\* the same source was ingested twice: a pair without edges before has two edges
\* of the same label now
C8_Witness ==
    /\ last.op = "add_relationships_from_file"
    /\ last.again
    /\ last.err = "none"
    /\ \E p \in DOMAIN adj :
          /\ AdjOf(last.first.adj, p) = <<>>
          /\ Len(adj[p]) = 2
          /\ adj[p][1] = adj[p][2]

(***************************************************************************)
(* What a clique query is to find, read off the store.                     *)
(***************************************************************************)
IsQuery == last.op \in {"find_friend_cliques", "find_person_cliques"}

\* the directed edges from a to b, one of which satisfies the predicate of the query
Satisfies(a, b) ==
    /\ <<a, b>> \in DOMAIN adj
    /\ Len(adj[<<a, b>>]) > 0
    /\ IF last.op = "find_friend_cliques"
       THEN \E k \in 1..Len(adj[<<a, b>>]) : adj[<<a, b>>][k] = "FRIENDS_WITH"
       ELSE /\ HasType(nodes, a) /\ nodes[a]["Type"] = <<"Person">>
            /\ HasType(nodes, b) /\ nodes[b]["Type"] = <<"Person">>

\* the non-empty sets of nodes of the derived graph that are pairwise adjacent in it
CliquesOfDerived ==
    {S \in SUBSET (UNION last.edges) :
        S # {} /\ \A a \in S, b \in S : a # b => {a, b} \in last.edges}

CliquesOfSize(n) == {i \in 1..Len(last.cliques) : Len(last.cliques[i]) = n}

(***************************************************************************)
(* C1.  A clique query that builds its derived graph returns exactly the   *)
(* non-empty sets of nodes of that graph that are pairwise adjacent, each  *)
(* once (as a list without repeated members) and nothing else; for a       *)
(* triangle these are 7 cliques: three singletons, three pairs, one triple.*)
(***************************************************************************)
C1_AllCliques ==
    (IsQuery /\ last.err = "none") =>
        /\ \A i \in 1..Len(last.cliques) :
              Cardinality(Range(last.cliques[i])) = Len(last.cliques[i])
        /\ \A i \in 1..Len(last.cliques), j \in 1..Len(last.cliques) :
              i # j => Range(last.cliques[i]) # Range(last.cliques[j])
        /\ {Range(last.cliques[i]) : i \in 1..Len(last.cliques)} = CliquesOfDerived
        /\ (Cardinality(last.edges) = 3 /\ Cardinality(UNION last.edges) = 3) =>
              /\ Len(last.cliques) = 7
              /\ Cardinality(CliquesOfSize(1)) = 3
              /\ Cardinality(CliquesOfSize(2)) = 3
              /\ Cardinality(CliquesOfSize(3)) = 1

\* a friend query on a triangle of FRIENDS_WITH edges has returned
C1_Witness ==
    /\ last.op = "find_friend_cliques"
    /\ last.err = "none"
    /\ last.edges = {{"A", "B"}, {"A", "C"}, {"B", "C"}}
    /\ Len(last.cliques) = 7

(***************************************************************************)
(* C5.  The edge set a clique query builds holds {a, b} exactly when some  *)
(* directed edge a -> b or b -> a of the store satisfies the predicate of  *)
(* the query (relation FRIENDS_WITH; both ends of Type Person); the nodes  *)
(* of the derived graph are the ends of these pairs; parallel and opposite *)
(* edges give one pair, returned as one 2-clique; an edge the predicate    *)
(* excludes gives no pair, and with no matching edge there is no clique.   *)
(***************************************************************************)
C5_DerivedGraph ==
    IsQuery =>
        /\ \A a \in DOMAIN nodes, b \in DOMAIN nodes :
              ({a, b} \in last.edges) <=> (Satisfies(a, b) \/ Satisfies(b, a))
        /\ \A e \in last.edges : e \subseteq DOMAIN nodes
        /\ last.err = "none" =>
              /\ Range(last.order) = UNION last.edges
              /\ Len(last.order) = Cardinality(UNION last.edges)
              /\ UNION {Range(last.cliques[i]) : i \in 1..Len(last.cliques)}
                   = UNION last.edges
              /\ Cardinality(CliquesOfSize(2)) = Cardinality(last.edges)
        /\ (\A a \in DOMAIN nodes, b \in DOMAIN nodes : ~Satisfies(a, b)) =>
              /\ last.err = "none"
              /\ last.cliques = <<>>

\* a friend query on a store with FRIENDS_WITH edges in both directions between
\* two nodes and an edge of another relation between two nodes that are no friends
C5_Witness ==
    /\ last.op = "find_friend_cliques"
    /\ last.err = "none"
    /\ \E a \in DOMAIN nodes, b \in DOMAIN nodes :
          a # b /\ Satisfies(a, b) /\ Satisfies(b, a)
    /\ \E p \in DOMAIN adj :
          /\ p[1] # p[2]
          /\ {p[1], p[2]} \notin last.edges
    /\ Cardinality(last.edges) = 1

(***************************************************************************)
(* C9.  The clique queries have no error condition: on every store that    *)
(* successful ingestions produce (self-loops, parallel and opposite edges  *)
(* included) find_friend_cliques and find_person_cliques return without    *)
(* raising.                                                                *)
(***************************************************************************)
C9_QueriesNeverRaise == IsQuery => last.err = "none"

(***************************************************************************)
(* C10.  The clique lists app.py hands to the page are the enumeration     *)
(* results filtered by minimum size: friend_cliques and person_cliques     *)
(* hold every enumerated clique of length 3 or greater and no clique of    *)
(* length below 3.                                                         *)
(***************************************************************************)
C10_MinimumSizeThree ==
    /\ last.op = "friend_cliques" =>
          \A i \in 1..Len(last.cliques) :
              (Len(last.cliques[i]) >= 3) <=> (last.cliques[i] \in Range(friend_cliques))
    /\ last.op = "person_cliques" =>
          \A i \in 1..Len(last.cliques) :
              (Len(last.cliques[i]) >= 3) <=> (last.cliques[i] \in Range(person_cliques))
====
